---- MODULE Spec2Model ----
(***************************************************************************)
(* Model of core/service-worker.js, the offline-caching and push           *)
(* notification agent of the Health Tracker PWA.                           *)
(*                                                                         *)
(* Strings that the code inspects (URLs) are sequences of tokens, so that  *)
(* startsWith / includes / concatenation are computed and not assumed.     *)
(* Every promise continuation of a handler is one action; the host         *)
(* primitives (caches, fetch, clients, registration) settle with any of    *)
(* the outcomes the platform can produce.                                  *)
(***************************************************************************)
EXTENDS Integers, Sequences, FiniteSets, TLC

\* ---------------------------------------------------------------- bounds
MaxEvents == 2      \* functional events (fetch, message, push, click) dispatched
MaxStale  == 2      \* cache stores left behind by earlier versions

\* ------------------------------------------------------- program constants
CACHE_NAME == "daily-tracker-v2.1"

FILES_TO_CACHE ==
  << <<"/">>,
     <<"index.html">>,
     <<"core/core-styles.css">>,
     <<"core/core-scripts.js">>,
     <<"core/ui.js">>,
     <<"trackers/trackers-scripts.js">>,
     <<"trackers/trackers-styles.css">>,
     <<"workouts/workouts-scripts.js">>,
     <<"workouts/workouts-styles.css">>,
     <<"habits/habits-scripts.js">>,
     <<"habits/habits-styles.css">>,
     <<"reminders/reminders-scripts.js">>,
     <<"reminders/reminders-styles.css">>,
     <<"manifest.json">>,
     <<"icons/icon-192.png">>,
     <<"icons/icon-512.png">>,
     <<"https://", "fonts.googleapis.com", "/",
       "css2?family=Inter:wght@400;500;600;700&display=swap">>,
     <<"https://", "fonts.googleapis.com", "/",
       "icon?family=Material+Icons+Round">> >>

\* ------------------------------------------------------------ environment
\* self.location.origin and self.registration.scope of the deployment.
Origin == <<"https://", "app.example">>
Scope  == Origin \o <<"/", "tracker/">>

\* Names of stores earlier versions may have left behind, oldest first.
StaleNamePool ==
  <<"daily-tracker-v2.0", "daily-tracker-v1.9", "daily-tracker-v1.8",
    "daily-tracker-v1.7">>

\* ------------------------------------------------------------ URL strings
\* String.prototype.startsWith
StartsWith(s, p) ==
  /\ Len(p) <= Len(s)
  /\ SubSeq(s, 1, Len(p)) = p

\* String.prototype.includes
Includes(s, p) ==
  \E i \in 1..(Len(s) + 1) :
     /\ i + Len(p) - 1 <= Len(s)
     /\ SubSeq(s, i, i + Len(p) - 1) = p

IsAbsolute(u) == Len(u) > 0 /\ u[1] \in {"https://", "http://"}

\* The request URL a URL string of the worker denotes (relative strings are
\* resolved against the worker's location, a '/'-rooted one against its origin).
Resolve(u) ==
  IF IsAbsolute(u) THEN u
  ELSE IF Len(u) > 0 /\ u[1] = "/" THEN Origin \o u
  ELSE Scope \o u

\* The origin of an absolute URL: scheme, host and port, up to the path.
UrlOrigin(u) ==
  LET stops == { k \in 2..Len(u) : u[k] = "/" }
      end   == IF stops = {} THEN Len(u)
               ELSE (CHOOSE k \in stops : \A j \in stops : k <= j) - 1
  IN  SubSeq(u, 1, end)

SameOrigin(u) == UrlOrigin(u) = Origin

AssetKeys == { Resolve(FILES_TO_CACHE[i]) : i \in 1..Len(FILES_TO_CACHE) }

\* -------------------------------------------------------------- responses
NoResponse == [status |-> 0, type |-> "undefined", ver |-> 0]

\* Response.type of a fetched response: 'basic' only for a same-origin URL.
TypeFor(u) == IF SameOrigin(u) THEN "basic" ELSE "cors"

OkResponse(u, v) == [status |-> 200, type |-> TypeFor(u), ver |-> v]

\* A response carries in ver the network operation that fetched it, which
\* tells the responses of different fetches apart: 0 in the stores of an
\* earlier version, 1 for the install's addAll, n + 1 for the n-th event.
InstallStamp == 1
EventStamp(n) == n + 1

\* What a completed network fetch of u, stamped v, can yield.
NetworkResponses(u, v) ==
  IF SameOrigin(u)
  THEN { OkResponse(u, v),
         [status |-> 404, type |-> "basic", ver |-> v],
         [status |-> 0, type |-> "opaqueredirect", ver |-> v] }
  ELSE { OkResponse(u, v),
         [status |-> 0, type |-> "opaque", ver |-> v] }

\* ---------------------------------------------------------- CacheStorage
\* caches is the sequence of stores in creation order; a store is
\* [name, entries] with entries a function from request URL to response.
HasStore(cs, n) == \E i \in 1..Len(cs) : cs[i].name = n

StoreNames(cs) == { cs[i].name : i \in 1..Len(cs) }

Entries(cs, n) ==
  IF HasStore(cs, n)
  THEN (CHOOSE c \in { cs[i] : i \in 1..Len(cs) } : c.name = n).entries
  ELSE <<>>

\* caches.open(n): creates the store when it does not exist.
CachesOpen(cs, n) ==
  IF HasStore(cs, n) THEN cs ELSE Append(cs, [name |-> n, entries |-> <<>>])

\* caches.delete(n)
CachesDelete(cs, n) == SelectSeq(cs, LAMBDA c : c.name # n)

\* caches.keys()
CachesKeys(cs) == [i \in 1..Len(cs) |-> cs[i].name]

\* cache.put(key, resp) on the store named n (no effect once it is gone).
CachePut(cs, n, key, resp) ==
  [i \in 1..Len(cs) |->
     IF cs[i].name = n
     THEN [cs[i] EXCEPT !.entries = (key :> resp) @@ @]
     ELSE cs[i]]

\* cache.addAll(urls) once every fetch has succeeded: one atomic batch.
CacheAddAll(cs, n, urls, v) ==
  LET keys == { Resolve(urls[i]) : i \in 1..Len(urls) }
      new  == [k \in keys |-> OkResponse(k, v)]
  IN  [i \in 1..Len(cs) |->
         IF cs[i].name = n
         THEN [cs[i] EXCEPT !.entries = new @@ @]
         ELSE cs[i]]

\* caches.match(request): the first store, in creation order, holding the
\* request's URL; only GET requests ever match.
CachesMatch(cs, req) ==
  LET hits == { i \in 1..Len(cs) : req.url \in DOMAIN cs[i].entries }
  IN  IF req.method # "GET" \/ hits = {} THEN NoResponse
      ELSE cs[CHOOSE i \in hits : \A j \in hits : i <= j].entries[req.url]

\* The name of the store whose entry caches.match(request) returns ("" on a miss).
CachesMatchStore(cs, req) ==
  LET hits == { i \in 1..Len(cs) : req.url \in DOMAIN cs[i].entries }
  IN  IF req.method # "GET" \/ hits = {} THEN ""
      ELSE cs[CHOOSE i \in hits : \A j \in hits : i <= j].name

\* ------------------------------------------------------------------ state
VARIABLES
  caches,         \* CacheStorage of the origin: the stores, in creation order
  phase,          \* lifecycle of this worker
  skipWaiting,    \* self.skipWaiting() has been called
  claimed,        \* self.clients.claim() has been called
  inst,           \* the install event's handler and the work it waits on
  act,            \* the activate event's handler and the work it waits on
  fet,            \* the fetch events in flight, by slot
  msg,            \* the message event's handler and the work it waits on
  psh,            \* the push event's handler and the work it waits on
  notifications,  \* notifications of this registration currently displayed
  clk,            \* the notificationclick event's handler and its work
  nev             \* functional events dispatched so far

cacheVars == <<caches, phase, skipWaiting, claimed, inst, act, fet, msg>>
notifVars == <<psh, notifications, clk>>
vars == <<caches, phase, skipWaiting, claimed, inst, act, fet, msg,
          psh, notifications, clk, nev>>

\* Two fetch events can be in flight at once.
Slots == {1, 2}

IndexUrl == Scope \o <<"index.html">>
ApiUrl   == Scope \o <<"api/data">>
FontUrl  == Resolve(FILES_TO_CACHE[18])
\* A foreign host whose name merely begins with this origin's host name.
LookalikeUrl == Origin \o <<".evil.test", "/", "x.js">>

\* event.request of the fetch events the controlled pages cause.
Requests ==
  { [url |-> IndexUrl, method |-> "GET"],
    [url |-> ApiUrl, method |-> "GET"],
    [url |-> ApiUrl, method |-> "POST"],
    [url |-> FontUrl, method |-> "GET"],
    [url |-> LookalikeUrl, method |-> "GET"] }

NoRequest == [url |-> <<>>, method |-> ""]

IdleInstall  == [pc |-> "idle", populated |-> FALSE, result |-> "none"]
IdleActivate == [pc |-> "idle", keyList |-> <<>>, pending |-> {},
                 failed |-> {}, result |-> "none"]
IdleFetch    == [pc |-> "idle", req |-> NoRequest, stamp |-> 0, ops |-> {},
                 responded |-> FALSE, src |-> "none", store |-> "",
                 result |-> NoResponse]
IdleMessage  == [pc |-> "idle", type |-> "", hadStore |-> FALSE,
                 result |-> "none", stamp |-> 0]

\* A store an earlier version populated.
StaleStore(n) ==
  [name |-> n, entries |-> (IndexUrl :> [status |-> 200, type |-> "basic", ver |-> 0])]

\* The stores that can exist when this version is installed: any number of
\* stale ones, oldest first (which names they bear makes no difference).
InitialCaches ==
  { [i \in 1..k |-> StaleStore(StaleNamePool[i])] : k \in 0..MaxStale }

\* ---------------------------------------------------------------- install
\* install listener: skipWaiting(), then waitUntil(caches.open(...)...).
InstallEvent ==
  /\ phase = "parsed"
  /\ phase' = "installing"
  /\ skipWaiting' = TRUE
  /\ inst' = [inst EXCEPT !.pc = "open"]
  /\ UNCHANGED <<caches, claimed, act, fet, msg, notifVars, nev>>

\* caches.open(CACHE_NAME) settles and cache.addAll is called.
InstallOpen ==
  /\ inst.pc = "open"
  /\ caches' = CachesOpen(caches, CACHE_NAME)
  /\ inst' = [inst EXCEPT !.pc = "addAll"]
  /\ UNCHANGED <<phase, skipWaiting, claimed, act, fet, msg, notifVars, nev>>

\* Variant: no catch after addAll; a failed precaching rejects the work the
\* install event waits on and the host discards the worker.
InstallAddAllNoCatch ==
  /\ inst.pc = "addAll"
  /\ \/ /\ caches' = CacheAddAll(caches, CACHE_NAME, FILES_TO_CACHE,
                                  InstallStamp)
        /\ inst' = [pc |-> "settled", populated |-> TRUE,
                     result |-> "fulfilled"]
        /\ phase' = "installed"
     \/ /\ inst' = [inst EXCEPT !.pc = "settled", !.result = "rejected"]
        /\ phase' = "redundant"
        /\ UNCHANGED caches
  /\ UNCHANGED <<skipWaiting, claimed, act, fet, msg, notifVars, nev>>

\* cache.addAll(FILES_TO_CACHE) settles: every asset fetched and stored, or
\* some fetch failed, nothing stored and the catch logs it. The catch turns
\* the rejection into a fulfilled promise, so the install succeeds either way.
InstallAddAll ==
  /\ inst.pc = "addAll"
  /\ \/ /\ caches' = CacheAddAll(caches, CACHE_NAME, FILES_TO_CACHE,
                                  InstallStamp)
        /\ inst' = [pc |-> "settled", populated |-> TRUE,
                     result |-> "fulfilled"]
     \/ /\ inst' = [inst EXCEPT !.pc = "settled", !.result = "fulfilled"]
        /\ UNCHANGED caches
  /\ phase' = "installed"
  /\ UNCHANGED <<skipWaiting, claimed, act, fet, msg, notifVars, nev>>

\* --------------------------------------------------------------- activate
\* activate listener: waitUntil(caches.keys().then(...)), clients.claim().
ActivateEvent ==
  /\ phase = "installed"
  /\ skipWaiting
  /\ phase' = "activating"
  /\ act' = [act EXCEPT !.pc = "keys"]
  /\ claimed' = TRUE
  /\ UNCHANGED <<caches, skipWaiting, inst, fet, msg, notifVars, nev>>

\* Variant: the cleanup stops after the first key it deletes.
KeysToDeleteFirstOnly(keyList) ==
  LET old == { j \in 1..Len(keyList) : keyList[j] # CACHE_NAME }
  IN  IF old = {} THEN {}
      ELSE { keyList[CHOOSE j \in old : \A k \in old : j <= k] }

\* Variant: the cleanup deletes every key, the current one included.
KeysToDeleteAll(keyList) == { keyList[i] : i \in 1..Len(keyList) }

\* The keys to delete, of a key list.
KeysToDelete(keyList) ==
  { keyList[i] : i \in { j \in 1..Len(keyList) : keyList[j] # CACHE_NAME } }

\* caches.keys() settles: caches.delete is called for every key to delete
\* and Promise.all waits for them (it is fulfilled at once when there is none).
ActivateKeys ==
  /\ act.pc = "keys"
  /\ LET keyList == CachesKeys(caches)
         del     == KeysToDelete(keyList)
     IN  /\ act' = [pc |-> "deleting", keyList |-> keyList, pending |-> del,
                    failed |-> {},
                    result |-> IF del = {} THEN "fulfilled" ELSE "none"]
         /\ phase' = IF del = {} THEN "activated" ELSE phase
  /\ UNCHANGED <<caches, skipWaiting, claimed, inst, fet, msg,
                 notifVars, nev>>

\* Variant: the deletions run one after the other and the first failure
\* abandons the ones not yet made.
ActivateDeleteStopOnFailure ==
  /\ act.pc = "deleting"
  /\ \E key \in act.pending, ok \in BOOLEAN :
       LET left == IF ok THEN act.pending \ {key} ELSE {}
           res  == IF act.result # "none" THEN act.result
                   ELSE IF ~ok THEN "rejected"
                   ELSE IF left = {} THEN "fulfilled"
                   ELSE "none"
       IN  /\ caches' = IF ok THEN CachesDelete(caches, key) ELSE caches
           /\ act' = [act EXCEPT !.pending = left, !.result = res,
                                 !.failed = IF ok THEN @ ELSE @ \cup {key}]
           /\ phase' = IF res # "none" THEN "activated" ELSE phase
  /\ UNCHANGED <<skipWaiting, claimed, inst, fet, msg, notifVars, nev>>

\* One caches.delete(key) settles. Promise.all is rejected by the first
\* rejection and fulfilled when all are fulfilled; the other deletions go on.
ActivateDelete ==
  /\ act.pc = "deleting"
  /\ \E key \in act.pending, ok \in BOOLEAN :
       LET left == act.pending \ {key}
           res  == IF act.result # "none" THEN act.result
                   ELSE IF ~ok THEN "rejected"
                   ELSE IF left = {} THEN "fulfilled"
                   ELSE "none"
       IN  /\ caches' = IF ok THEN CachesDelete(caches, key) ELSE caches
           /\ act' = [act EXCEPT !.pending = left, !.result = res,
                                 !.failed = IF ok THEN @ ELSE @ \cup {key}]
           /\ phase' = IF res # "none" THEN "activated" ELSE phase
  /\ UNCHANGED <<skipWaiting, claimed, inst, fet, msg, notifVars, nev>>

\* ------------------------------------------------------------------ fetch
\* The handler's test for "not cross-origin".
Intercepts(req) == StartsWith(req.url, Origin)

\* Variant: every response the network gives is worth caching.
CacheableAnyResponse(resp) == resp # NoResponse

\* The handler's test for a response worth caching.
Cacheable(resp) ==
  ~(resp = NoResponse \/ resp.status # 200 \/ resp.type # "basic")

FreeSlots == { s \in Slots : fet[s].pc \in {"idle", "passthrough", "done"} }

\* fetch listener, synchronous part: respondWith(caches.match(...)...) for a
\* request that passes the origin test, nothing at all for any other.
FetchEvent ==
  /\ phase = "activated"
  /\ nev < MaxEvents
  /\ FreeSlots # {}
  /\ \E req \in Requests :
       LET s == CHOOSE f \in FreeSlots : \A g \in FreeSlots : f <= g
       IN  fet' = [fet EXCEPT ![s] =
                     IF Intercepts(req)
                     THEN [IdleFetch EXCEPT !.pc = "match", !.req = req,
                                            !.stamp = EventStamp(nev + 1),
                                            !.ops = {"respondWith", "match"}]
                     ELSE [IdleFetch EXCEPT !.pc = "passthrough", !.req = req]]
  /\ nev' = nev + 1
  /\ UNCHANGED <<caches, phase, skipWaiting, claimed, inst, act, msg,
                 notifVars>>

\* Variant: the lookup's result is ignored and the network is always asked.
FetchMatchRevalidate(s) ==
  /\ fet[s].pc = "match"
  /\ fet' = [fet EXCEPT ![s] = [@ EXCEPT !.pc = "net", !.ops = @ \cup {"fetch"}]]
  /\ UNCHANGED <<caches, phase, skipWaiting, claimed, inst, act, msg,
                 notifVars, nev>>

\* caches.match settles: a hit is the response, a miss calls fetch.
FetchMatch(s) ==
  /\ fet[s].pc = "match"
  /\ LET response == CachesMatch(caches, fet[s].req)
     IN  fet' = [fet EXCEPT ![s] =
                   IF response # NoResponse
                   THEN [@ EXCEPT !.pc = "done", !.responded = TRUE,
                                  !.src = "cache", !.result = response,
                                  !.store = CachesMatchStore(caches, fet[s].req)]
                   ELSE [@ EXCEPT !.pc = "net", !.ops = @ \cup {"fetch"}]]
  /\ UNCHANGED <<caches, phase, skipWaiting, claimed, inst, act, msg,
                 notifVars, nev>>

\* Variant: the catch answers a failed fetch with the cached start page.
FetchNetworkOfflinePage(s) ==
  /\ fet[s].pc = "net"
  /\ \/ fet' = [fet EXCEPT ![s] =
                  [@ EXCEPT !.pc = "done", !.responded = TRUE,
                            !.src = "network",
                            !.result = CachesMatch(caches, [url |-> IndexUrl,
                                                            method |-> "GET"]),
                            !.ops = @ \cup {"catch", "match"}]]
     \/ \E response \in NetworkResponses(fet[s].req.url, fet[s].stamp) :
          fet' = [fet EXCEPT ![s] =
                    IF ~Cacheable(response)
                    THEN [@ EXCEPT !.pc = "done", !.responded = TRUE,
                                   !.src = "network", !.result = response]
                    ELSE [@ EXCEPT !.pc = "w_open", !.responded = TRUE,
                                   !.src = "network", !.result = response,
                                   !.ops = @ \cup {"open"}]]
  /\ UNCHANGED <<caches, phase, skipWaiting, claimed, inst, act, msg,
                 notifVars, nev>>

\* fetch(event.request) settles. A rejection is logged by the catch and the
\* event is answered with undefined. A response that is not cacheable is
\* returned as it is; for a cacheable one caches.open is called, not waited
\* for, and the response is returned.
FetchNetwork(s) ==
  /\ fet[s].pc = "net"
  /\ \/ fet' = [fet EXCEPT ![s] =
                  [@ EXCEPT !.pc = "done", !.responded = TRUE,
                            !.src = "network", !.result = NoResponse,
                            !.ops = @ \cup {"catch"}]]
     \/ \E response \in NetworkResponses(fet[s].req.url, fet[s].stamp) :
          fet' = [fet EXCEPT ![s] =
                    IF ~Cacheable(response)
                    THEN [@ EXCEPT !.pc = "done", !.responded = TRUE,
                                   !.src = "network", !.result = response]
                    ELSE [@ EXCEPT !.pc = "w_open", !.responded = TRUE,
                                   !.src = "network", !.result = response,
                                   !.ops = @ \cup {"open"}]]
  /\ UNCHANGED <<caches, phase, skipWaiting, claimed, inst, act, msg,
                 notifVars, nev>>

\* Variant: the write opens the store under the previous version's name.
FetchCacheOpenOldName(s) ==
  /\ fet[s].pc = "w_open"
  /\ caches' = CachesOpen(caches, StaleNamePool[1])
  /\ fet' = [fet EXCEPT ![s] = [@ EXCEPT !.pc = "w_put", !.ops = @ \cup {"put"}]]
  /\ UNCHANGED <<phase, skipWaiting, claimed, inst, act, msg,
                 notifVars, nev>>

\* caches.open(CACHE_NAME) of the write settles and cache.put is called.
FetchCacheOpen(s) ==
  /\ fet[s].pc = "w_open"
  /\ caches' = CachesOpen(caches, CACHE_NAME)
  /\ fet' = [fet EXCEPT ![s] = [@ EXCEPT !.pc = "w_put", !.ops = @ \cup {"put"}]]
  /\ UNCHANGED <<phase, skipWaiting, claimed, inst, act, msg,
                 notifVars, nev>>

\* cache.put(event.request, responseToCache) settles: the entry is written,
\* except that put rejects a request whose method is not GET.
FetchCachePut(s) ==
  /\ fet[s].pc = "w_put"
  /\ caches' = IF fet[s].req.method = "GET"
               THEN CachePut(caches, CACHE_NAME, fet[s].req.url, fet[s].result)
               ELSE caches
  /\ fet' = [fet EXCEPT ![s] = [@ EXCEPT !.pc = "done"]]
  /\ UNCHANGED <<phase, skipWaiting, claimed, inst, act, msg,
                 notifVars, nev>>

\* ---------------------------------------------------------------- message
MessageTypes == {"schedule-reminder", "cancel-reminder", "update-cache", "other"}

\* message listener: only 'update-cache' does anything,
\* waitUntil(caches.open(...).then(addAll)).
MessageEvent ==
  /\ phase # "parsed"
  /\ nev < MaxEvents
  /\ msg.pc \in {"idle", "done"}
  /\ \E type \in MessageTypes :
       msg' = [pc |-> IF type = "update-cache" THEN "open" ELSE "done",
               type |-> IF type = "update-cache" THEN type ELSE "logged",
               hadStore |-> type = "update-cache" /\ HasStore(caches, CACHE_NAME),
               result |-> "none",
               stamp |-> IF type = "update-cache" THEN EventStamp(nev + 1) ELSE 0]
  /\ nev' = nev + 1
  /\ UNCHANGED <<caches, phase, skipWaiting, claimed, inst, act, fet,
                 notifVars>>

\* caches.open(CACHE_NAME) settles and cache.addAll is called.
MessageOpen ==
  /\ msg.pc = "open"
  /\ caches' = CachesOpen(caches, CACHE_NAME)
  /\ msg' = [msg EXCEPT !.pc = "addAll"]
  /\ UNCHANGED <<phase, skipWaiting, claimed, inst, act, fet,
                 notifVars, nev>>

\* Variant: the update re-adds a list that lacks the two font URLs.
MessageAddAllShortList ==
  /\ msg.pc = "addAll"
  /\ \/ /\ caches' = CacheAddAll(caches, CACHE_NAME,
                                  SubSeq(FILES_TO_CACHE, 1, 16), msg.stamp)
        /\ msg' = [msg EXCEPT !.pc = "done", !.result = "fulfilled"]
     \/ /\ msg' = [msg EXCEPT !.pc = "done", !.result = "rejected"]
        /\ UNCHANGED caches
  /\ UNCHANGED <<phase, skipWaiting, claimed, inst, act, fet,
                 notifVars, nev>>

\* cache.addAll(FILES_TO_CACHE) settles; nothing catches a rejection.
MessageAddAll ==
  /\ msg.pc = "addAll"
  /\ \/ /\ caches' = CacheAddAll(caches, CACHE_NAME, FILES_TO_CACHE, msg.stamp)
        /\ msg' = [msg EXCEPT !.pc = "done", !.result = "fulfilled"]
     \/ /\ msg' = [msg EXCEPT !.pc = "done", !.result = "rejected"]
        /\ UNCHANGED caches
  /\ UNCHANGED <<phase, skipWaiting, claimed, inst, act, fet,
                 notifVars, nev>>

\* -------------------------------------------------------- JavaScript values
\* A value is [t, v]: its type and, for strings and numbers, its text.
JsUndefined == [t |-> "undefined", v |-> ""]
JsNull      == [t |-> "null", v |-> ""]
Str(x)      == [t |-> "string", v |-> x]
Num(x)      == [t |-> "number", v |-> x]

Truthy(x) ==
  ~ \/ x.t \in {"undefined", "null"}
    \/ (x.t = "string" /\ x.v = "")
    \/ (x.t = "number" /\ x.v = "0")

\* a || b
Or(a, b) == IF Truthy(a) THEN a ELSE b

\* `${x}`
ToStr(x) == IF x.t \in {"undefined", "null"} THEN x.t ELSE x.v

\* ------------------------------------------------------------------- push
DefaultTitle == Str("Daily Tracker")
DefaultBody  == Str("Time to check your health reminders!")
DefaultTag   == Str("reminder-notification")

\* options.data when the handler attaches none.
NoData == [present |-> FALSE, type |-> JsUndefined,
           reminderId |-> JsUndefined, action |-> JsUndefined]

\* A parsed payload object; a field the payload lacks reads as undefined.
Obj(title, body, tag, type, reminderId, action) ==
  [title |-> title, body |-> body, tag |-> tag, type |-> type,
   reminderId |-> reminderId, action |-> action]

EmptyObj == Obj(JsUndefined, JsUndefined, JsUndefined, JsUndefined,
                JsUndefined, JsUndefined)

\* event.data of a push: absent, text that is not JSON, the JSON text 'null',
\* or the JSON text of an object.
Payloads ==
  { [kind |-> "none", obj |-> EmptyObj],
    [kind |-> "malformed", obj |-> EmptyObj],
    [kind |-> "null", obj |-> EmptyObj],
    [kind |-> "object", obj |-> EmptyObj],
    [kind |-> "object", obj |-> Obj(Str("T"), Str("B"), JsUndefined,
                                    Str("reminder"), Str("42"), JsUndefined)],
    [kind |-> "object", obj |-> Obj(Str(""), Str("B"), Str("t1"),
                                    JsUndefined, JsUndefined, JsUndefined)],
    [kind |-> "object", obj |-> Obj(Str("T"), JsUndefined, Str("t1"),
                                    Str("other"), Str("9"), Str("dismiss"))],
    [kind |-> "object", obj |-> Obj(JsUndefined, Str(""), JsUndefined,
                                    Str("reminder"), JsUndefined, JsUndefined)],
    [kind |-> "object", obj |-> Obj(JsUndefined, JsUndefined, Str(""),
                                    Str("reminder"), Num("7"), Str("snooze"))],
    [kind |-> "object", obj |-> Obj(Str("T"), Str("B"), Str("t1"),
                                    Str("reminder"), Num("0"), Str(""))] }

\* event.data.json(): throws on text that is not JSON.
JsonThrows(data) == data.kind = "malformed"

\* Reading a property of the parsed value throws when the value is null.
ReadThrows(data) == data.kind = "null"

\* Variant: the data object is attached whatever the payload's type.
BuildNotificationAnyType(data) ==
  LET d == data.obj
      defaults == [threw |-> FALSE, title |-> DefaultTitle,
                   body |-> DefaultBody, tag |-> DefaultTag, data |-> NoData]
  IN  IF data.kind = "none" THEN defaults
      ELSE IF JsonThrows(data) \/ ReadThrows(data) THEN defaults
      ELSE [threw |-> FALSE,
            title |-> Or(d.title, DefaultTitle),
            body  |-> Or(d.body, DefaultBody),
            tag   |-> Or(d.tag, DefaultTag),
            data  |-> [present |-> TRUE, type |-> Str("reminder"),
                       reminderId |-> Or(d.reminderId, JsNull),
                       action |-> Or(d.action, Str("open"))]]

\* Variant: the parsing is not guarded by try/catch.
BuildNotificationNoCatch(data) ==
  LET d == data.obj
      defaults == [threw |-> FALSE, title |-> DefaultTitle,
                   body |-> DefaultBody, tag |-> DefaultTag, data |-> NoData]
  IN  IF data.kind = "none" THEN defaults
      ELSE IF JsonThrows(data) \/ ReadThrows(data)
      THEN [defaults EXCEPT !.threw = TRUE]
      ELSE [threw |-> FALSE,
            title |-> Or(d.title, DefaultTitle),
            body  |-> Or(d.body, DefaultBody),
            tag   |-> Or(d.tag, DefaultTag),
            data  |-> IF d.type = Str("reminder")
                      THEN [present |-> TRUE, type |-> Str("reminder"),
                            reminderId |-> Or(d.reminderId, JsNull),
                            action |-> Or(d.action, Str("open"))]
                      ELSE NoData]

\* The handler up to the showNotification call: the title and options it
\* assembles, and whether an exception left it before that call.
BuildNotification(data) ==
  LET d == data.obj
      defaults == [threw |-> FALSE, title |-> DefaultTitle,
                   body |-> DefaultBody, tag |-> DefaultTag, data |-> NoData]
  IN  IF data.kind = "none" THEN defaults
      ELSE IF JsonThrows(data) \/ ReadThrows(data) THEN defaults
      ELSE [threw |-> FALSE,
            title |-> Or(d.title, DefaultTitle),
            body  |-> Or(d.body, DefaultBody),
            tag   |-> Or(d.tag, DefaultTag),
            data  |-> IF d.type = Str("reminder")
                      THEN [present |-> TRUE, type |-> Str("reminder"),
                            reminderId |-> Or(d.reminderId, JsNull),
                            action |-> Or(d.action, Str("open"))]
                      ELSE NoData]

IdlePush == [pc |-> "idle", data |-> [kind |-> "none", obj |-> EmptyObj],
             shows |-> 0, title |-> JsUndefined, body |-> JsUndefined,
             tag |-> JsUndefined, ndata |-> NoData, result |-> "none"]

\* Variant: showNotification is called but not handed to waitUntil, so the
\* event is over as soon as the listener returns.
PushEventNoWaitUntil ==
  /\ phase = "activated"
  /\ nev < MaxEvents
  /\ psh.pc \in {"idle", "threw", "handled"}
  /\ \E data \in Payloads :
       LET b == BuildNotification(data)
       IN  psh' = IF b.threw
                  THEN [IdlePush EXCEPT !.pc = "threw", !.data = data]
                  ELSE [pc |-> "handled", data |-> data, shows |-> 1,
                        title |-> b.title, body |-> b.body, tag |-> b.tag,
                        ndata |-> b.data, result |-> "none"]
  /\ nev' = nev + 1
  /\ UNCHANGED <<cacheVars, notifications, clk>>

\* push listener: waitUntil(showNotification(title, options)).
PushEvent ==
  /\ phase = "activated"
  /\ nev < MaxEvents
  /\ psh.pc \in {"idle", "threw", "handled"}
  /\ \E data \in Payloads :
       LET b == BuildNotification(data)
       IN  psh' = IF b.threw
                  THEN [IdlePush EXCEPT !.pc = "threw", !.data = data]
                  ELSE [pc |-> "showing", data |-> data, shows |-> 1,
                        title |-> b.title, body |-> b.body, tag |-> b.tag,
                        ndata |-> b.data, result |-> "none"]
  /\ nev' = nev + 1
  /\ UNCHANGED <<cacheVars, notifications, clk>>

\* showNotification settles: the notification replaces any with its tag, or
\* the host refuses to display it.
PushShown ==
  /\ psh.pc = "showing"
  /\ \E ok \in BOOLEAN :
       IF ok
       THEN /\ notifications' =
                 { n \in notifications : n.tag # psh.tag }
                 \cup {[title |-> psh.title, body |-> psh.body,
                        tag |-> psh.tag, data |-> psh.ndata]}
            /\ psh' = [psh EXCEPT !.pc = "handled", !.result = "fulfilled"]
       ELSE /\ psh' = [psh EXCEPT !.pc = "handled", !.result = "rejected"]
            /\ UNCHANGED notifications
  /\ UNCHANGED <<cacheVars, clk, nev>>

\* ------------------------------------------------------ notificationclick
InScopeWin  == Scope \o <<"index.html">>
InScopeWin2 == Scope \o <<"settings.html">>
OutScopeWin == Origin \o <<"/", "other/">>
\* A page outside the scope whose query string carries the scope's URL.
EmbedWin    == Origin \o <<"/", "login?next=">> \o Scope

\* What clients.matchAll({type: 'window', includeUncontrolled: true}) can
\* yield: the open windows of the origin, in the host's order.
ClientLists ==
  { <<>>, <<OutScopeWin>>, <<InScopeWin>>, <<OutScopeWin, InScopeWin>>,
    <<InScopeWin, InScopeWin2>>, <<InScopeWin2, OutScopeWin, InScopeWin>>,
    <<EmbedWin>>, <<EmbedWin, InScopeWin>> }

\* The handler's test for a window to focus.
WindowMatches(url) == Includes(url, Scope)

NoMessage == [type |-> "", action |-> "", reminderId |-> JsUndefined]

Call(op, client, message, url) ==
  [op |-> op, client |-> client, message |-> message, url |-> url]

\* The URL the handler opens for a notification's data.
OpenUrl(ndata) ==
  LET base == <<"/">>
      rem  == IF ndata.type = Str("reminder")
              THEN base \o <<"?open=reminders">>
              ELSE base
  IN  IF ndata.type = Str("reminder") /\ Truthy(ndata.reminderId)
      THEN rem \o <<"&reminder=", ToStr(ndata.reminderId)>>
      ELSE rem

\* The then-callback of matchAll: the host calls it makes for a client list.
ClickCalls(ndata, clientList) ==
  LET match == { i \in 1..Len(clientList) : WindowMatches(clientList[i]) }
  IN  IF match # {}
      THEN LET i == CHOOSE k \in match : \A j \in match : k <= j
               post == IF ndata.type = Str("reminder")
                       THEN << Call("postMessage", clientList[i],
                                    [type |-> "notification-click",
                                     action |-> "open-reminders",
                                     reminderId |-> ndata.reminderId], <<>>) >>
                       ELSE <<>>
           IN  post \o << Call("focus", clientList[i], NoMessage, <<>>) >>
      ELSE << Call("openWindow", <<>>, NoMessage, OpenUrl(ndata)) >>

IdleClick == [pc |-> "idle", action |-> "", ndata |-> NoData, closed |-> FALSE,
              clients |-> <<>>, calls |-> <<>>, result |-> "none"]

ClickActions == {"", "open", "dismiss"}

\* Variant: the 'dismiss' action is not told apart from the others.
ClickSyncNoDismiss(n, action) ==
  [IdleClick EXCEPT
     !.pc = "matchAll",
     !.action = action,
     !.closed = TRUE,
     !.ndata = n.data,
     !.calls = << Call("matchAll", <<>>, NoMessage, <<>>) >>]

\* The handler's synchronous part for a click of `action` on notification n:
\* the notification is closed; 'dismiss' returns, anything else calls
\* clients.matchAll inside waitUntil.
ClickSync(n, action) ==
  [IdleClick EXCEPT
     !.pc = IF action = "dismiss" THEN "done" ELSE "matchAll",
     !.action = action,
     !.closed = TRUE,
     !.ndata = n.data,
     !.calls = IF action = "dismiss" THEN <<>>
               ELSE << Call("matchAll", <<>>, NoMessage, <<>>) >>]

\* notificationclick listener, up to its return.
ClickEvent ==
  /\ phase = "activated"
  /\ nev < MaxEvents
  /\ clk.pc \in {"idle", "done"}
  /\ \E n \in notifications, action \in ClickActions :
       /\ notifications' = notifications \ {n}
       /\ clk' = ClickSync(n, action)
  /\ nev' = nev + 1
  /\ UNCHANGED <<cacheVars, psh>>

\* matchAll settles with the open windows and the callback runs.
ClickMatched ==
  /\ clk.pc = "matchAll"
  /\ \E clientList \in ClientLists :
       clk' = [clk EXCEPT !.pc = "settling",
                          !.clients = clientList,
                          !.calls = @ \o ClickCalls(clk.ndata, clientList)]
  /\ UNCHANGED <<cacheVars, psh, notifications, nev>>

\* client.focus() or clients.openWindow(url) settles.
ClickSettled ==
  /\ clk.pc = "settling"
  /\ \E res \in {"fulfilled", "rejected"} :
       clk' = [clk EXCEPT !.pc = "done", !.result = res]
  /\ UNCHANGED <<cacheVars, psh, notifications, nev>>

\* notificationclose listener: reads the data and logs; the notification is
\* gone because the user closed it.
NotificationCloseEvent ==
  /\ phase = "activated"
  /\ nev < MaxEvents
  /\ \E n \in notifications : notifications' = notifications \ {n}
  /\ nev' = nev + 1
  /\ UNCHANGED <<cacheVars, psh, clk>>

\* sync listener: waitUntil(Promise.resolve()) for 'reminder-sync', nothing else.
SyncEvent ==
  /\ phase = "activated"
  /\ nev < MaxEvents
  /\ nev' = nev + 1
  /\ UNCHANGED <<cacheVars, notifVars>>

\* ------------------------------------------------------------------- host
\* Some event still keeps the worker alive: work passed to waitUntil or
\* respondWith has not settled.
WorkPending ==
  \/ inst.pc \in {"open", "addAll"}
  \/ act.pc = "keys"
  \/ (act.pc = "deleting" /\ act.result = "none")
  \/ \E s \in Slots : fet[s].pc \in {"match", "net"}
  \/ msg.pc \in {"open", "addAll"}
  \/ psh.pc = "showing"
  \/ clk.pc \in {"matchAll", "settling"}

\* The host stops the idle worker. The cache write of a fetch is work no
\* event waits for: a continuation of it that has not run yet never runs
\* (the caches.open already issued still takes effect).
Terminate ==
  /\ ~WorkPending
  /\ \E s \in Slots : fet[s].pc = "w_open"
  /\ fet' = [s \in Slots |->
               IF fet[s].pc = "w_open" THEN [fet[s] EXCEPT !.pc = "done"]
               ELSE fet[s]]
  /\ caches' = CachesOpen(caches, CACHE_NAME)
  /\ UNCHANGED <<phase, skipWaiting, claimed, inst, act, msg,
                 notifVars, nev>>

\* ---------------------------------------------------------- specification
Init ==
  /\ caches \in InitialCaches
  /\ phase = "parsed"
  /\ skipWaiting = FALSE
  /\ claimed = FALSE
  /\ inst = IdleInstall
  /\ act = IdleActivate
  /\ fet = [s \in Slots |-> IdleFetch]
  /\ msg = IdleMessage
  /\ psh = IdlePush
  /\ notifications = {}
  /\ clk = IdleClick
  /\ nev = 0

Lifecycle ==
  \/ InstallEvent
  \/ InstallOpen
  \/ InstallAddAll
  \/ ActivateEvent
  \/ ActivateKeys
  \/ ActivateDelete

NextCache ==
  \/ InstallEvent
  \/ InstallOpen
  \/ InstallAddAll
  \/ ActivateEvent
  \/ ActivateKeys
  \/ ActivateDelete
  \/ FetchEvent
  \/ \E s \in Slots : FetchMatch(s)
  \/ \E s \in Slots : FetchNetwork(s)
  \/ \E s \in Slots : FetchCacheOpen(s)
  \/ \E s \in Slots : FetchCachePut(s)
  \/ MessageEvent
  \/ MessageOpen
  \/ MessageAddAll
  \/ Terminate

NextNotif ==
  \/ InstallEvent
  \/ InstallOpen
  \/ InstallAddAll
  \/ ActivateEvent
  \/ ActivateKeys
  \/ ActivateDelete
  \/ PushEvent
  \/ PushShown
  \/ ClickEvent
  \/ ClickMatched
  \/ ClickSettled
  \/ NotificationCloseEvent

Next ==
  \/ NextCache
  \/ NextNotif
  \/ SyncEvent

Spec == Init /\ [][Next]_vars

\* The caching side alone: lifecycle, fetch and message events.
SpecCache == Init /\ [][NextCache]_vars

\* The notification side alone: lifecycle, push and notification events.
SpecNotif == Init /\ [][NextNotif]_vars

\* ================================================================ claims

\* C1: once the work the activate event waits on has completed (the
\* Promise.all over the deletions is fulfilled), no store with a name other
\* than CACHE_NAME exists, whatever stores existed before; and this stays so.
C1_OnlyCurrentAfterActivate ==
  act.result = "fulfilled" => StoreNames(caches) \subseteq {CACHE_NAME}

\* C1 witness: an activation that found stale stores next to the current one
\* has completed.
C1_Witness ==
  /\ act.result = "fulfilled"
  /\ Len(act.keyList) >= 3
  /\ \E i \in 1..Len(act.keyList) : act.keyList[i] = CACHE_NAME

\* C2: after an install whose precaching succeeded, every URL of the asset
\* list is an entry of the current store under its request key, with the
\* response fetched for it, in every later state.
C2_AssetsRetrievable ==
  inst.populated =>
    \A i \in 1..Len(FILES_TO_CACHE) :
       LET key == Resolve(FILES_TO_CACHE[i])
       IN  /\ HasStore(caches, CACHE_NAME)
           /\ key \in DOMAIN Entries(caches, CACHE_NAME)
           /\ Entries(caches, CACHE_NAME)[key].status = 200

\* C2 witness: the install populated the store, the activation cleaned up
\* after it and an event has been handled since.
C2_Witness ==
  /\ inst.populated
  /\ act.result # "none"
  /\ Len(act.keyList) >= 2
  /\ nev > 0

\* C3: when the lookup of a same-origin request finds a cached entry, the
\* event is answered with exactly that entry, no fetch and no cache write
\* is issued for it, and the stores are left as they were.
C3_HitServedFromCache ==
  /\ [](\A s \in Slots :
          fet[s].src = "cache" =>
            /\ fet[s].pc = "done"
            /\ fet[s].responded
            /\ fet[s].ops = {"respondWith", "match"})
  /\ [][\A s \in Slots :
          ( /\ fet[s].pc = "match"
            /\ SameOrigin(fet[s].req.url)
            /\ CachesMatch(caches, fet[s].req) # NoResponse
            /\ fet'[s] # fet[s] )
          => /\ fet'[s].pc = "done"
             /\ fet'[s].src = "cache"
             /\ fet'[s].result = CachesMatch(caches, fet[s].req)
             /\ caches' = caches]_vars

\* C3 witness: a same-origin request has been answered from the cache.
C3_Witness ==
  \E s \in Slots :
     /\ fet[s].src = "cache"
     /\ SameOrigin(fet[s].req.url)
     /\ fet[s].result.status = 200

\* C4 (as claimed): a same-origin request answered from the network with a
\* 200 'basic' response has, once nothing of its handling is left to run, an
\* entry in the current store.
C4_Claim ==
  \A s \in Slots :
     ( /\ fet[s].pc = "done"
       /\ SameOrigin(fet[s].req.url)
       /\ fet[s].src = "network"
       /\ fet[s].result.status = 200
       /\ fet[s].result.type = "basic" )
     => /\ HasStore(caches, CACHE_NAME)
        /\ fet[s].req.url \in DOMAIN Entries(caches, CACHE_NAME)

\* C5 (as claimed): a request whose URL has another origin is never
\* intercepted: no respondWith, no cache lookup, no fetch, no cache write.
C5_Claim ==
  \A s \in Slots :
     (fet[s].pc # "idle" /\ ~SameOrigin(fet[s].req.url))
     => /\ fet[s].pc = "passthrough"
        /\ fet[s].ops = {}
        /\ ~fet[s].responded

\* A field the payload has.
Present(x) == x.t # "undefined"

\* The fields of a payload that parsed as JSON (the JSON value null has none).
Fields(data) == IF data.kind = "object" THEN data.obj ELSE EmptyObj

\* The data the claim describes for a payload's fields.
ClaimedData(d) ==
  IF d.type = Str("reminder")
  THEN [present |-> TRUE, type |-> Str("reminder"),
        reminderId |-> IF Truthy(d.reminderId) THEN d.reminderId ELSE JsNull,
        action |-> IF Truthy(d.action) THEN d.action ELSE Str("open")]
  ELSE NoData

\* C6 (as claimed): for a payload that parses as JSON the notification shown
\* has the payload's title, body and tag where the payload has them and the
\* defaults otherwise, and the reminder data exactly for type 'reminder'.
C6_Claim ==
  (psh.pc \in {"showing", "handled"} /\ psh.data.kind \in {"null", "object"})
  => LET d == Fields(psh.data)
     IN  /\ psh.title = IF Present(d.title) THEN d.title ELSE DefaultTitle
         /\ psh.body = IF Present(d.body) THEN d.body ELSE DefaultBody
         /\ psh.tag = IF Present(d.tag) THEN d.tag ELSE DefaultTag
         /\ psh.ndata = ClaimedData(d)

\* C6 (amended): for a payload that parses as JSON the notification shown has
\* the payload's title, body and tag where the payload has them with a truthy
\* value (a non-empty string) and the defaults otherwise, and the reminder
\* data exactly for type 'reminder'; a push whose payload parses is never left
\* without a showNotification call.
C6_PushUsesPayload ==
  (psh.pc # "idle" /\ psh.data.kind \in {"null", "object"})
  => LET d == Fields(psh.data)
     IN  /\ psh.pc \in {"showing", "handled"}
         /\ psh.title = IF Truthy(d.title) THEN d.title ELSE DefaultTitle
         /\ psh.body = IF Truthy(d.body) THEN d.body ELSE DefaultBody
         /\ psh.tag = IF Truthy(d.tag) THEN d.tag ELSE DefaultTag
         /\ psh.ndata = ClaimedData(d)

\* C6 witness: the payload of the specification's example has been shown
\* with title "T", body "B" and data {reminder, '42', 'open'}.
C6_Witness ==
  /\ psh.pc = "handled"
  /\ psh.result = "fulfilled"
  /\ psh.data.kind = "object"
  /\ psh.data.obj.reminderId = Str("42")
  /\ psh.title = Str("T")
  /\ psh.body = Str("B")
  /\ psh.ndata = [present |-> TRUE, type |-> Str("reminder"),
                  reminderId |-> Str("42"), action |-> Str("open")]

\* C7: a push whose payload is not JSON still calls showNotification, once,
\* with the default title, body and tag and no data: the parse failure does
\* not leave the handler and overrides nothing.
C7_MalformedGivesDefaults ==
  (psh.pc # "idle" /\ psh.data.kind = "malformed")
  => /\ psh.pc \in {"showing", "handled"}
     /\ psh.shows = 1
     /\ psh.title = DefaultTitle
     /\ psh.body = DefaultBody
     /\ psh.tag = DefaultTag
     /\ psh.ndata = NoData

\* C7 witness: the default notification of a malformed push is displayed.
C7_Witness ==
  /\ psh.data.kind = "malformed"
  /\ psh.pc = "handled"
  /\ psh.result = "fulfilled"
  /\ [title |-> DefaultTitle, body |-> DefaultBody, tag |-> DefaultTag,
      data |-> NoData] \in notifications

\* C8: a click on 'dismiss' closes the notification and does nothing else:
\* no matchAll, no postMessage, no focus, no openWindow, nothing waited for.
C8_DismissOnlyCloses ==
  (clk.pc # "idle" /\ clk.action = "dismiss")
  => /\ clk.pc = "done"
     /\ clk.closed
     /\ clk.calls = <<>>
     /\ clk.clients = <<>>
     /\ clk.result = "none"

\* C8 witness: a reminder notification has been dismissed.
C8_Witness ==
  /\ clk.pc = "done"
  /\ clk.action = "dismiss"
  /\ clk.ndata.present

\* A window URL under the registration scope.
FallsUnderScope(url) == StartsWith(url, Scope)

\* The URL the claim gives for a notification's data.
ClaimedUrl(ndata) ==
  IF ndata.type # Str("reminder") THEN <<"/">>
  ELSE IF ndata.reminderId.t \in {"undefined", "null"}
  THEN <<"/", "?open=reminders">>
  ELSE <<"/", "?open=reminders", "&reminder=", ndata.reminderId.v>>

\* C9 (as claimed): a click other than 'dismiss' that finds no open window
\* under the registration scope opens exactly one window, at the claimed
\* URL, and posts to and focuses none.
C9_Claim ==
  ( /\ clk.pc \in {"settling", "done"}
    /\ clk.action # "dismiss"
    /\ \A i \in 1..Len(clk.clients) : ~FallsUnderScope(clk.clients[i]) )
  => clk.calls = << Call("matchAll", <<>>, NoMessage, <<>>),
                    Call("openWindow", <<>>, NoMessage, ClaimedUrl(clk.ndata)) >>

C11_Claim ==
  \A s \in Slots :
     fet[s].src = "cache" =>
       /\ fet[s].store = CACHE_NAME
       /\ fet[s].result.ver # 0

\* C12: the work the install event waits on is always fulfilled, whether
\* or not the asset list could be stored (the catch absorbs the failure), the
\* worker then counts as installed, and skipWaiting() has been called from the
\* moment the listener ran, before the outcome is known.
C12_InstallAlwaysSucceeds ==
  /\ inst.pc # "idle" => skipWaiting
  /\ inst.pc \in {"open", "addAll"} => inst.result = "none" /\ phase = "installing"
  /\ inst.pc = "settled" =>
       /\ inst.result = "fulfilled"
       /\ phase \in {"installed", "activating", "activated"}

\* The precaching failed, and the install has settled.
C12_Witness ==
  /\ inst.pc = "settled"
  /\ ~inst.populated
  /\ inst.result = "fulfilled"
  /\ skipWaiting

\* C13 (as claimed): a failure of the re-adding of the asset list is caught
\* inside the handler, so the work an 'update-cache' message event waits on is
\* never rejected.
C13_Claim ==
  msg.type = "update-cache" /\ msg.pc = "done" => msg.result = "fulfilled"

\* C14: for a same-origin request that missed the cache and whose network
\* fetch failed, the event is answered with no response at all (the caller's
\* fetch fails, no fallback is served), the event does nothing with any cache
\* store beyond the lookup, and the step in which the failure is handled
\* leaves every store as it was.
C14_FailedFetchNoFallback ==
  /\ [](\A s \in Slots :
          SameOrigin(fet[s].req.url) /\ "catch" \in fet[s].ops =>
            /\ fet[s].pc = "done"
            /\ fet[s].responded
            /\ fet[s].result = NoResponse
            /\ fet[s].ops = {"respondWith", "match", "fetch", "catch"})
  /\ [][\A s \in Slots :
          "catch" \in fet'[s].ops /\ "catch" \notin fet[s].ops =>
            caches' = caches]_vars

\* A same-origin request whose fetch failed while the current store holds
\* other entries that could have served as a fallback.
C14_Witness ==
  \E s \in Slots :
     /\ SameOrigin(fet[s].req.url)
     /\ "catch" \in fet[s].ops
     /\ fet[s].pc = "done"
     /\ IndexUrl \in DOMAIN Entries(caches, CACHE_NAME)

\* C15: for a same-origin request that missed the cache and whose network
\* response has a status other than 200 or a type other than 'basic', the
\* event is answered with exactly that response, no store is opened or written
\* by the event, and the step that returns the response leaves every store
\* (hence the set of cached keys) as it was.
C15_UncacheableReturnedAsIs ==
  /\ [](\A s \in Slots :
          /\ SameOrigin(fet[s].req.url)
          /\ fet[s].src = "network"
          /\ "catch" \notin fet[s].ops
          /\ (fet[s].result.status # 200 \/ fet[s].result.type # "basic")
          => /\ fet[s].pc = "done"
             /\ fet[s].responded
             /\ fet[s].result \in NetworkResponses(fet[s].req.url, fet[s].stamp)
             /\ fet[s].ops = {"respondWith", "match", "fetch"})
  /\ [][\A s \in Slots :
          /\ fet[s].pc = "net"
          /\ fet'[s].src = "network"
          /\ "catch" \notin fet'[s].ops
          /\ (fet'[s].result.status # 200 \/ fet'[s].result.type # "basic")
          => caches' = caches]_vars

\* A same-origin request answered with a 404 from the network.
C15_Witness ==
  \E s \in Slots :
     /\ SameOrigin(fet[s].req.url)
     /\ fet[s].src = "network"
     /\ fet[s].result.status = 404
     /\ fet[s].pc = "done"

\* C16: once the activation has listed the stores, every listed store whose
\* name differs from CACHE_NAME has a deletion of its own, whatever happens to
\* the others: at any moment its deletion is still under way, or has failed
\* and the store is still there, or has succeeded and the store is gone. A
\* failed deletion changes no store, and a store that was deleted does not
\* come back.
C16_DeletesIndependent ==
  /\ [](act.pc = "deleting" =>
          \A i \in 1..Len(act.keyList) :
             LET key == act.keyList[i]
             IN  key # CACHE_NAME =>
                   /\ ~(key \in act.pending /\ key \in act.failed)
                   /\ key \in act.pending => HasStore(caches, key)
                   /\ key \in act.failed => HasStore(caches, key)
                   /\ key \notin act.pending \cup act.failed =>
                        ~HasStore(caches, key))
  /\ [][/\ act'.failed # act.failed => caches' = caches
        /\ \A n \in StoreNames(caches') \ {CACHE_NAME} :
              n \in StoreNames(caches)]_vars

\* Of two stale stores, the deletion of one failed and the other is gone.
C16_Witness ==
  /\ act.pc = "deleting"
  /\ act.result = "rejected"
  /\ act.pending = {}
  /\ act.failed # {}
  /\ \E i \in 1..Len(act.keyList) :
        /\ act.keyList[i] # CACHE_NAME
        /\ ~HasStore(caches, act.keyList[i])

\* C17 (as claimed): when two events for the same same-origin GET request
\* both missed the cache and both got a cacheable response from the network,
\* both write the cache, and once both are over the current store holds an
\* entry for the request, namely the response of one of the two.
C17_Claim ==
  \A s, t \in Slots :
     /\ s # t
     /\ fet[s].req = fet[t].req
     /\ SameOrigin(fet[s].req.url)
     /\ fet[s].req.method = "GET"
     /\ \A u \in {s, t} :
           /\ fet[u].pc = "done"
           /\ fet[u].src = "network"
           /\ fet[u].result.status = 200
           /\ fet[u].result.type = "basic"
     => /\ "put" \in fet[s].ops
        /\ "put" \in fet[t].ops
        /\ fet[s].req.url \in DOMAIN Entries(caches, CACHE_NAME)

\* C18 (as claimed): a click other than 'dismiss' that finds an open window
\* under the registration scope focuses the first such window of the
\* enumeration and opens none; for a reminder notification it first posts
\* {type: 'notification-click', action: 'open-reminders', reminderId} to that
\* same window, and for any other notification it posts nothing.
C18_Claim ==
  LET under == { i \in 1..Len(clk.clients) : FallsUnderScope(clk.clients[i]) }
  IN  ( /\ clk.pc \in {"settling", "done"}
        /\ clk.action # "dismiss"
        /\ under # {} )
      => LET win == clk.clients[CHOOSE k \in under : \A j \in under : k <= j]
         IN  clk.calls =
               << Call("matchAll", <<>>, NoMessage, <<>>) >>
               \o (IF clk.ndata.type = Str("reminder")
                   THEN << Call("postMessage", win,
                                [type |-> "notification-click",
                                 action |-> "open-reminders",
                                 reminderId |-> clk.ndata.reminderId], <<>>) >>
                   ELSE <<>>)
               \o << Call("focus", win, NoMessage, <<>>) >>

\* C19: every push event, whatever its payload (none, JSON, not JSON), makes
\* exactly one request to display a notification; while that request is
\* outstanding the event is not over and keeps the worker alive, and the event
\* is over only when the request has settled, fulfilled or rejected.
C19_PushShowsOnce ==
  /\ [](psh.pc # "idle" =>
          /\ psh.shows = 1
          /\ psh.pc \in {"showing", "handled"}
          /\ psh.pc = "showing" => psh.result = "none" /\ WorkPending
          /\ psh.pc = "handled" => psh.result \in {"fulfilled", "rejected"})
  /\ [][psh'.pc = "handled" /\ psh' # psh =>
          psh.pc = "showing" /\ psh'.shows = psh.shows]_vars

\* A push without payload whose display request was rejected.
C19_Witness ==
  /\ psh.pc = "handled"
  /\ psh.data.kind = "none"
  /\ psh.shows = 1
  /\ psh.result = "rejected"

\* C20: no step of any handler creates a store under a name other than
\* CACHE_NAME or changes the entries of one (such a store can only stay as it
\* is or disappear); hence, from the moment an activation has completed with
\* the current store as the only store, every later step of the fetch,
\* message, push, notification and sync handlers leaves the current store the
\* only store.
C20_OnlyCurrentStoreWritten ==
  /\ [][\A i \in 1..Len(caches') :
          caches'[i].name # CACHE_NAME =>
            \E j \in 1..Len(caches) : caches[j] = caches'[i]]_vars
  /\ [][(act.result = "fulfilled" /\ StoreNames(caches) = {CACHE_NAME})
          => StoreNames(caches') = {CACHE_NAME}]_vars

\* After an activation that deleted a stale store: a fetch has written the
\* cache, a push has been handled, and the current store is the only one.
C20_Witness ==
  /\ act.result = "fulfilled"
  /\ Len(act.keyList) > 1
  /\ StoreNames(caches) = {CACHE_NAME}
  /\ \E s \in Slots : fet[s].pc = "done" /\ "put" \in fet[s].ops
  /\ psh.pc = "handled"

====
